---------------------------- MODULE Spec2Model ----------------------------
(***************************************************************************)
(* Model of app.py, the Streamlit house price form.                        *)
(*                                                                         *)
(* Streamlit runs the script from its first to its last line on every      *)
(* interaction (one widget edited, or the button pressed).  A step of the  *)
(* model is one such run: the widgets take their values, the artifact and  *)
(* the mapping tables are (re)assigned, the derived fields are computed    *)
(* and, when the run was started by the button, the row is built, handed   *)
(* to the pipeline and the estimate is written to the page.                *)
(*                                                                         *)
(* Numbers.  Python ints are TLA+ integers.  A Python float is a record    *)
(* FloatV(whole, micro) of a fixed-point number whole + micro * 1e-6, so   *)
(* that eps = 1e-6 is one unit and every quantity stays below 2^31; a      *)
(* quotient is truncated after its sixth decimal.  np.nan is NaN.          *)
(***************************************************************************)
EXTENDS Integers, Sequences, FiniteSets, TLC

VARIABLES
    FEATURES,               \* ART["feature_order"]
    PT_COLS, SM_COLS,       \* the two mapping tables (module-level dicts)
    beds, baths, parking,
    land_size, distance_to_cbd,
    nearest_supermarket, nearest_train, nearest_bus, nearest_park,
    property_type, sale_method,
    rooms_total, amenity_access_index,
    button,                 \* st.button("Predict price") of this run
    X_row,                  \* the DataFrame built in this run, or NoRow
    predict_args,           \* the batches handed to pipe.predict in this run
    returned,               \* the arrays pipe.predict returned in this run
    yhat,                   \* <<>> or <<the value bound to yhat>>
    estimate,               \* <<>> or <<the price st.success displays>>
    show,                   \* the dict of the expander (non-NaN fields)
    raised                  \* an exception left the script in this run

widgets == <<beds, baths, parking, land_size, distance_to_cbd,
             nearest_supermarket, nearest_train, nearest_bus, nearest_park,
             property_type, sale_method>>

vars == <<FEATURES, PT_COLS, SM_COLS, widgets, rooms_total,
          amenity_access_index, button, X_row, predict_args, returned, yhat,
          estimate, show, raised>>

Range(f) == {f[i] : i \in DOMAIN f}

-----------------------------------------------------------------------------
(* Values *)

\* fixed-point units per 1.0: the resolution is the script's 1e-6
Unit == 1000000

NaN == [kind |-> "nan", whole |-> 0, micro |-> 0]
IntV(n) == [kind |-> "int", whole |-> n, micro |-> 0]
FloatV(w, m) == [kind |-> "float", whole |-> w, micro |-> m]
ZeroDivisionError == [kind |-> "ZeroDivisionError", whole |-> 0, micro |-> 0]

notna(v) == v.kind # "nan"

\* a + b on floats (an operand that raised propagates)
fadd(a, b) ==
    IF a.kind # "float" THEN a
    ELSE IF b.kind # "float" THEN b
    ELSE LET m == a.micro + b.micro
         IN  FloatV(a.whole + b.whole + (m \div Unit), m % Unit)

\* the first k decimals of r / n, for 0 <= r < n, appended to acc
RECURSIVE decimals(_, _, _, _)
decimals(r, n, k, acc) ==
    IF k = 0 THEN acc
    ELSE decimals((r * 10) % n, n, k - 1, acc * 10 + ((r * 10) \div n))

\* 1 / x on a float; Python raises ZeroDivisionError when x == 0.0
finv(x) ==
    LET n == x.whole * Unit + x.micro
    IN  IF x.kind # "float" \/ n = 0 THEN ZeroDivisionError
        ELSE FloatV(Unit \div n, decimals(Unit % n, n, 6, 0))

eps == FloatV(0, 1)

-----------------------------------------------------------------------------
(* The widgets: minimum, default and maximum of each number_input, the     *)
(* options of each selectbox.                                              *)

PropertyTypes == {"House", "Apartment / Unit / Flat / Studio", "Townhouse",
                  "Villa", "Land"}
SaleMethods == {"Private treaty", "Auction", "Prior auction",
                "Active (listed)"}

Defaults ==
    [beds |-> 3, baths |-> 2, parking |-> 1,
     land_size |-> FloatV(400, 0), distance_to_cbd |-> FloatV(10, 0),
     nearest_supermarket |-> FloatV(0, 800000),
     nearest_train |-> FloatV(1, 200000),
     nearest_bus |-> FloatV(0, 300000),
     nearest_park |-> FloatV(0, 500000),
     property_type |-> "House", sale_method |-> "Private treaty"]

WidgetValues ==
    [beds |-> {0, 3, 12}, baths |-> {0, 2, 8}, parking |-> {0, 1, 8},
     land_size |-> {FloatV(0, 0), FloatV(400, 0)},
     distance_to_cbd |-> {FloatV(10, 0), FloatV(500, 0)},
     nearest_supermarket |-> {FloatV(0, 0), FloatV(0, 800000)},
     nearest_train |-> {FloatV(0, 0), FloatV(1, 200000)},
     nearest_bus |-> {FloatV(0, 0), FloatV(0, 300000), FloatV(200, 0)},
     nearest_park |-> {FloatV(0, 0), FloatV(0, 500000)},
     property_type |-> PropertyTypes, sale_method |-> SaleMethods]

\* the widget values of the current run
Inputs ==
    [beds |-> beds, baths |-> baths, parking |-> parking,
     land_size |-> land_size, distance_to_cbd |-> distance_to_cbd,
     nearest_supermarket |-> nearest_supermarket,
     nearest_train |-> nearest_train, nearest_bus |-> nearest_bus,
     nearest_park |-> nearest_park,
     property_type |-> property_type, sale_method |-> sale_method]

\* the module namespace: the globals build_input_row reads
globals ==
    [FEATURES |-> FEATURES, PT_COLS |-> PT_COLS, SM_COLS |-> SM_COLS,
     beds |-> beds, baths |-> baths, parking |-> parking,
     land_size |-> land_size, distance_to_cbd |-> distance_to_cbd,
     nearest_supermarket |-> nearest_supermarket,
     nearest_train |-> nearest_train, nearest_bus |-> nearest_bus,
     nearest_park |-> nearest_park,
     property_type |-> property_type, sale_method |-> sale_method,
     rooms_total |-> rooms_total,
     amenity_access_index |-> amenity_access_index]

-----------------------------------------------------------------------------
(* Lines 49-70: derived fields and mapping tables *)

\* a slip: the parking spaces left out of the sum
compute_rooms_total_no_parking(b, ba, p) == b + ba

compute_rooms_total(b, ba, p) == b + ba + p

\* a slip: the epsilon left out of the denominator
reciprocal_no_eps ==
    [d \in UNION {WidgetValues[f] : f \in
                    {"nearest_supermarket", "nearest_train", "nearest_bus",
                     "nearest_park"}} |-> finv(d)]

\* 1/(1e-6 + d), tabulated over the distances the widgets take
reciprocal ==
    [d \in UNION {WidgetValues[f] : f \in
                    {"nearest_supermarket", "nearest_train", "nearest_bus",
                     "nearest_park"}} |-> finv(fadd(eps, d))]

compute_amenity_access_index(ns, nt, nb, np) ==
    fadd(fadd(fadd(reciprocal[ns], reciprocal[nt]), reciprocal[nb]),
         reciprocal[np])

PT_COLS_dict ==
    [l \in PropertyTypes |->
        CASE l = "House" -> "property_type_house"
          [] l = "Apartment / Unit / Flat / Studio" ->
                 "property_type_apartment_unit_flat_studio"
          [] l = "Townhouse" -> "property_type_townhouse"
          [] l = "Villa" -> "property_type_villa"
          [] l = "Land" -> "property_type_land"]

SM_COLS_dict ==
    [l \in SaleMethods |->
        CASE l = "Private treaty" -> "sale_method_private_treaty"
          [] l = "Auction" -> "sale_method_auction"
          [] l = "Prior auction" -> "sale_method_prior_auction"
          [] l = "Active (listed)" -> "sale_method_active"]

-----------------------------------------------------------------------------
(* Lines 72-108: the row builder *)

\* a slip: the membership test inverted
put_if_present_if_absent(d, name, value) ==
    IF name \notin DOMAIN d
    THEN [c \in DOMAIN d \cup {name} |-> IF c = name THEN value ELSE d[c]]
    ELSE d

put_if_present(d, name, value) ==
    IF name \in DOMAIN d THEN [d EXCEPT ![name] = value] ELSE d

\* for col in names: put_if_present(d, col, value)
RECURSIVE put_each(_, _, _)
put_each(d, names, value) ==
    IF names = {} THEN d
    ELSE LET col == CHOOSE c \in names : TRUE
         IN  put_each(put_if_present(d, col, value), names \ {col}, value)

\* a slip: the columns start at 0 instead of NaN
all_nan_zero_filled(features) == [c \in Range(features) |-> IntV(0)]

\* line 79: {c: np.nan for c in FEATURES}
all_nan(features) == [c \in Range(features) |-> NaN]

\* lines 82-87; g is the module namespace the function reads its globals from
basic_numeric_fields(d, g) ==
    LET d1 == put_if_present(d, "beds", IntV(g.beds))
        d2 == put_if_present(d1, "baths", IntV(g.baths))
        d3 == put_if_present(d2, "parking", IntV(g.parking))
        d4 == put_if_present(d3, "land_size", g.land_size)
        d5 == put_if_present(d4, "distance_to_cbd", g.distance_to_cbd)
    IN  put_if_present(d5, "rooms_total", IntV(g.rooms_total))

\* lines 90-94
distances_and_index(d, g) ==
    LET d1 == put_if_present(d, "nearest_supermarket", g.nearest_supermarket)
        d2 == put_if_present(d1, "nearest_train", g.nearest_train)
        d3 == put_if_present(d2, "nearest_bus", g.nearest_bus)
        d4 == put_if_present(d3, "nearest_park", g.nearest_park)
    IN  put_if_present(d4, "amenity_access_index", g.amenity_access_index)

\* a slip: the selected column set before the family is zeroed
one_hot_one_first(d, COLS, selected) ==
    put_each(put_if_present(d, COLS[selected], IntV(1)), Range(COLS), IntV(0))

\* a slip: a selection whose column is absent falls back on a column of the
\* family that is present
one_hot_fallback(d, COLS, selected) ==
    LET zeroed == put_each(d, Range(COLS), IntV(0))
        present == Range(COLS) \cap DOMAIN d
    IN  IF COLS[selected] \in DOMAIN d \/ present = {}
        THEN put_if_present(zeroed, COLS[selected], IntV(1))
        ELSE put_if_present(zeroed, CHOOSE c \in present : TRUE, IntV(1))

\* lines 97-100 and 102-105: all columns of the table to 0, then the
\* selected one to 1
one_hot(d, COLS, selected) ==
    put_if_present(put_each(d, Range(COLS), IntV(0)), COLS[selected], IntV(1))

\* pd.DataFrame(rows, columns=columns): one column per name of columns, in
\* that order; a key of a row that is no column is dropped, a column that
\* is no key of a row is NaN
DataFrame(rows, columns) ==
    [columns |-> columns,
     values |-> [i \in DOMAIN rows |->
                  [j \in DOMAIN columns |->
                     IF columns[j] \in DOMAIN rows[i]
                     THEN rows[i][columns[j]] ELSE NaN]]]

\* lines 79-105: the dict data when line 108 is reached
build_data(g) ==
    LET data0 == all_nan(g.FEATURES)
        data1 == basic_numeric_fields(data0, g)
        data2 == distances_and_index(data1, g)
        data3 == one_hot(data2, g.PT_COLS, g.property_type)
    IN  one_hot(data3, g.SM_COLS, g.sale_method)

\* a slip: the frame built from the populated fields only
build_input_row_populated(g) ==
    LET data == build_data(g)
        populated(c) == notna(data[c])
    IN  DataFrame(<<data>>, SelectSeq(g.FEATURES, populated))

build_input_row(g) == DataFrame(<<build_data(g)>>, g.FEATURES)

NoRow == [columns |-> <<>>, values |-> <<>>]

-----------------------------------------------------------------------------
(* Lines 110-119: the pipeline and the button handler *)

Prices == {250000, 1000000}

\* What pipe.predict may do with a batch: raise, or return one price per row
PredictorOutcomes ==
    {[raises |-> TRUE, price |-> 0]} \cup
    {[raises |-> FALSE, price |-> p] : p \in Prices}

pipe_predict(batch, out) == [i \in DOMAIN batch.values |-> out.price]

\* X_row.iloc[0].items(): the first row as a Series; a Series has one dtype,
\* so ints become floats unless every column is an int
iloc0_items(df) ==
    LET row == df.values[1]
        all_int == \A j \in DOMAIN row : row[j].kind = "int"
        cast(v) == IF v.kind = "int" /\ ~all_int THEN FloatV(v.whole, 0)
                   ELSE v
    IN  [j \in DOMAIN row |-> <<df.columns[j], cast(row[j])>>]

\* line 118
non_nan_fields(df) ==
    LET items == iloc0_items(df)
        kept == {j \in DOMAIN items : notna(items[j][2])}
    IN  [k \in {items[j][1] : j \in kept} |->
           items[CHOOSE j \in kept : items[j][1] = k][2]]

\* a slip: a failure of the pipeline caught and a default shown
predict_button_handler_fallback(out) ==
    /\ X_row' = build_input_row(globals')
    /\ predict_args' = <<X_row'>>
    /\ raised' = FALSE
    /\ returned' = IF out.raises THEN <<>> ELSE <<pipe_predict(X_row', out)>>
    /\ yhat' = IF out.raises THEN <<0>> ELSE <<returned'[1][1]>>
    /\ estimate' = yhat'
    /\ show' = non_nan_fields(X_row')

\* lines 112-119, the button pressed
predict_button_handler(out) ==
    /\ X_row' = build_input_row(globals')
    /\ predict_args' = <<X_row'>>
    /\ IF out.raises
       THEN /\ raised' = TRUE
            /\ returned' = <<>>
            /\ yhat' = <<>>
            /\ estimate' = <<>>
            /\ show' = <<>>
       ELSE /\ raised' = FALSE
            /\ returned' = <<pipe_predict(X_row', out)>>
            /\ yhat' = <<returned'[1][1]>>
            /\ estimate' = yhat'
            /\ show' = non_nan_fields(X_row')

\* line 112, the button not pressed: nothing below it runs
no_button ==
    /\ X_row' = NoRow
    /\ predict_args' = <<>>
    /\ raised' = FALSE
    /\ returned' = <<>>
    /\ yhat' = <<>>
    /\ estimate' = <<>>
    /\ show' = <<>>

\* a slip: the derived fields computed once and kept across runs
derived_fields_stale == UNCHANGED <<rooms_total, amenity_access_index>>

\* lines 49-55
derived_fields ==
    /\ rooms_total' = compute_rooms_total(beds', baths', parking')
    /\ amenity_access_index' =
           compute_amenity_access_index(nearest_supermarket', nearest_train',
                                        nearest_bus', nearest_park')

\* a slip: the schema reordered in place
feature_order_reversed ==
    FEATURES' = [i \in DOMAIN FEATURES |-> FEATURES[Len(FEATURES) + 1 - i]]

\* lines 10-12: the artifact is the same file in every run, and no line of
\* the script assigns to or mutates FEATURES
feature_order == FEATURES' = FEATURES

\* One run of the script with the widgets at w
script(w, pressed, out) ==
    /\ feature_order
    /\ beds' = w.beds /\ baths' = w.baths /\ parking' = w.parking
    /\ land_size' = w.land_size /\ distance_to_cbd' = w.distance_to_cbd
    /\ nearest_supermarket' = w.nearest_supermarket
    /\ nearest_train' = w.nearest_train
    /\ nearest_bus' = w.nearest_bus
    /\ nearest_park' = w.nearest_park
    /\ property_type' = w.property_type /\ sale_method' = w.sale_method
    /\ derived_fields
    /\ PT_COLS' = PT_COLS_dict
    /\ SM_COLS' = SM_COLS_dict
    /\ IF pressed THEN predict_button_handler(out) ELSE no_button

-----------------------------------------------------------------------------
(* The explored schemas and inputs *)

RawFields == {"beds", "baths", "parking", "land_size", "distance_to_cbd",
              "nearest_supermarket", "nearest_train", "nearest_bus",
              "nearest_park"}
DerivedFields == {"rooms_total", "amenity_access_index"}
\* columns of an artifact that the script never names
OtherColumns == {"property_type_other", "year_built"}

\* every column name explored, in one reference order
ColumnOrder ==
    <<"beds", "baths", "parking", "land_size", "distance_to_cbd",
      "rooms_total", "nearest_supermarket", "nearest_train", "nearest_bus",
      "nearest_park", "amenity_access_index", "year_built",
      "property_type_house", "property_type_apartment_unit_flat_studio",
      "property_type_townhouse", "property_type_villa", "property_type_land",
      "property_type_other", "sale_method_private_treaty",
      "sale_method_auction", "sale_method_prior_auction",
      "sale_method_active">>

Columns == Range(ColumnOrder)

MaxSchemaLen == 2

\* the schema of the end-to-end scenario of the specification
EndToEndSchema ==
    <<"beds", "baths", "parking", "rooms_total", "property_type_house",
      "property_type_apartment_unit_flat_studio", "sale_method_auction">>

\* Non-empty sequences of unique column names: up to MaxSchemaLen columns
\* taken in the reference order or against it (every order of two columns),
\* and the end-to-end schema
Schemas ==
    {[i \in DOMAIN p |-> ColumnOrder[p[i]]] : p \in
        {q \in UNION {[1..n -> DOMAIN ColumnOrder] : n \in 1..MaxSchemaLen} :
            \/ \A i \in DOMAIN q : i > 1 => q[i - 1] < q[i]
            \/ \A i \in DOMAIN q : i > 1 => q[i - 1] > q[i]}}
    \cup {EndToEndSchema}

\* the inputs explored: one widget off its default, and two chains that
\* drive the counts to their maxima and the distances to zero
Scenarios ==
    {[Defaults EXCEPT ![f] = v] : <<f, v>> \in
        UNION {{<<g, u>> : u \in WidgetValues[g]} : g \in DOMAIN WidgetValues}}
    \cup {[Defaults EXCEPT !.beds = 12, !.baths = 8],
          [Defaults EXCEPT !.beds = 12, !.baths = 8, !.parking = 8],
          [Defaults EXCEPT !.nearest_supermarket = FloatV(0, 0),
                           !.nearest_train = FloatV(0, 0)],
          [Defaults EXCEPT !.nearest_supermarket = FloatV(0, 0),
                           !.nearest_train = FloatV(0, 0),
                           !.nearest_bus = FloatV(0, 0)],
          [Defaults EXCEPT !.nearest_supermarket = FloatV(0, 0),
                           !.nearest_train = FloatV(0, 0),
                           !.nearest_bus = FloatV(0, 0),
                           !.nearest_park = FloatV(0, 0)]}

\* the user has set widget f to v; the script runs, the button not pressed
edit(f, v) ==
    LET w == [Inputs EXCEPT ![f] = v]
    IN  /\ w \in Scenarios
        /\ button' = FALSE
        /\ script(w, FALSE, CHOOSE o \in PredictorOutcomes : TRUE)

-----------------------------------------------------------------------------
(* The state machine *)

Init ==
    /\ FEATURES \in Schemas
    /\ PT_COLS = PT_COLS_dict
    /\ SM_COLS = SM_COLS_dict
    /\ beds = Defaults.beds /\ baths = Defaults.baths
    /\ parking = Defaults.parking
    /\ land_size = Defaults.land_size
    /\ distance_to_cbd = Defaults.distance_to_cbd
    /\ nearest_supermarket = Defaults.nearest_supermarket
    /\ nearest_train = Defaults.nearest_train
    /\ nearest_bus = Defaults.nearest_bus
    /\ nearest_park = Defaults.nearest_park
    /\ property_type = Defaults.property_type
    /\ sale_method = Defaults.sale_method
    /\ rooms_total = compute_rooms_total(beds, baths, parking)
    /\ amenity_access_index =
           compute_amenity_access_index(nearest_supermarket, nearest_train,
                                        nearest_bus, nearest_park)
    /\ button = FALSE
    /\ X_row = NoRow
    /\ predict_args = <<>>
    /\ returned = <<>>
    /\ yhat = <<>>
    /\ estimate = <<>>
    /\ show = <<>>
    /\ raised = FALSE

EditBeds ==
    \E v \in WidgetValues.beds :
        /\ v # beds
        /\ edit("beds", v)

EditBaths ==
    \E v \in WidgetValues.baths :
        /\ v # baths
        /\ edit("baths", v)

EditParking ==
    \E v \in WidgetValues.parking :
        /\ v # parking
        /\ edit("parking", v)

EditLandSize ==
    \E v \in WidgetValues.land_size :
        /\ v # land_size
        /\ edit("land_size", v)

EditDistanceToCbd ==
    \E v \in WidgetValues.distance_to_cbd :
        /\ v # distance_to_cbd
        /\ edit("distance_to_cbd", v)

EditNearestSupermarket ==
    \E v \in WidgetValues.nearest_supermarket :
        /\ v # nearest_supermarket
        /\ edit("nearest_supermarket", v)

EditNearestTrain ==
    \E v \in WidgetValues.nearest_train :
        /\ v # nearest_train
        /\ edit("nearest_train", v)

EditNearestBus ==
    \E v \in WidgetValues.nearest_bus :
        /\ v # nearest_bus
        /\ edit("nearest_bus", v)

EditNearestPark ==
    \E v \in WidgetValues.nearest_park :
        /\ v # nearest_park
        /\ edit("nearest_park", v)

EditPropertyType ==
    \E v \in WidgetValues.property_type :
        /\ v # property_type
        /\ edit("property_type", v)

EditSaleMethod ==
    \E v \in WidgetValues.sale_method :
        /\ v # sale_method
        /\ edit("sale_method", v)

\* the user presses "Predict price"; the script runs with the widgets as
\* they are
PredictPrice ==
    \E out \in PredictorOutcomes :
        /\ button' = TRUE
        /\ script(Inputs, TRUE, out)

Next ==
    \/ EditBeds \/ EditBaths \/ EditParking
    \/ EditLandSize \/ EditDistanceToCbd
    \/ EditNearestSupermarket \/ EditNearestTrain
    \/ EditNearestBus \/ EditNearestPark
    \/ EditPropertyType \/ EditSaleMethod
    \/ PredictPrice

Spec == Init /\ [][Next]_vars

-----------------------------------------------------------------------------
(* Properties *)

\* the value of column c in the one row of frame df
at(df, c) == df.values[1][CHOOSE j \in DOMAIN df.columns : df.columns[j] = c]

S == Range(FEATURES)

\* the raw scalar fields as the row carries them
RawValue ==
    [beds |-> IntV(beds), baths |-> IntV(baths), parking |-> IntV(parking),
     land_size |-> land_size, distance_to_cbd |-> distance_to_cbd,
     nearest_supermarket |-> nearest_supermarket,
     nearest_train |-> nearest_train, nearest_bus |-> nearest_bus,
     nearest_park |-> nearest_park]

\* the columns named property_type_* and sale_method_*
PropertyTypeColumns == Range(PT_COLS_dict) \cup {"property_type_other"}
SaleMethodColumns == Range(SM_COLS_dict)

\* C1: the built row has exactly the columns of the schema, in the schema's
\* order, and one value per column.
C1_RowKeysAreSchemaInOrder ==
    button =>
        /\ X_row.columns = FEATURES
        /\ Range(X_row.columns) = S
        /\ Len(X_row.values) = 1
        /\ DOMAIN X_row.values[1] = DOMAIN FEATURES

C1_Witness ==
    /\ button
    /\ Len(FEATURES) = 2
    /\ FEATURES[1] = "year_built"
    /\ FEATURES[2] = "beds"
    /\ X_row.columns = <<"year_built", "beds">>

\* C2 as stated, on the schemas that hold a column of the family: exactly
\* one property_type_* column of S is 1 and every other is 0, and the same
\* for sale_method_*.
C2_ExactlyOneHot ==
    button =>
        \A fam \in {PropertyTypeColumns, SaleMethodColumns} :
            LET present == fam \cap S
                ones == {c \in present : at(X_row, c) = IntV(1)}
            IN  present # {} =>
                    /\ Cardinality(ones) = 1
                    /\ \A c \in present \ ones : at(X_row, c) = IntV(0)

\* C2 amended: each one-hot column of a mapping table that is in S is 1 if
\* it is the column mapped from the selected label and 0 otherwise; so at
\* most one column of a family is 1, and none when the selected column is
\* not in S.
C2_OneHotOfPresentColumns ==
    button =>
        /\ \A c \in Range(PT_COLS_dict) \cap S :
              at(X_row, c) =
                  IF c = PT_COLS_dict[property_type] THEN IntV(1) ELSE IntV(0)
        /\ \A c \in Range(SM_COLS_dict) \cap S :
              at(X_row, c) =
                  IF c = SM_COLS_dict[sale_method] THEN IntV(1) ELSE IntV(0)

C2_Witness ==
    /\ button
    /\ property_type = "Villa"
    /\ FEATURES = <<"property_type_house", "property_type_villa">>
    /\ at(X_row, "property_type_villa") = IntV(1)
    /\ at(X_row, "property_type_house") = IntV(0)

\* C3: when the column of the selected label is not in S the row is still
\* built and handed to the pipeline, no column of the family is 1 and the
\* row has no column outside S.
C3_AbsentSelectionHasNoEffect ==
    button =>
        /\ Len(predict_args) = 1 /\ predict_args[1] = X_row
        /\ Len(X_row.values) = 1
        /\ Range(X_row.columns) \subseteq S
        /\ PT_COLS_dict[property_type] \notin S =>
              \A c \in PropertyTypeColumns \cap S : at(X_row, c) # IntV(1)
        /\ SM_COLS_dict[sale_method] \notin S =>
              \A c \in SaleMethodColumns \cap S : at(X_row, c) # IntV(1)

C3_Witness ==
    /\ button
    /\ sale_method = "Auction"
    /\ "sale_method_auction" \notin S
    /\ "sale_method_active" \in S
    /\ "property_type_other" \in S
    /\ at(X_row, "sale_method_active") = IntV(0)

\* C4: a column of S that is no raw field, no derived field and no one-hot
\* column of the mapping tables is NaN in the built row.
C4_UnsetColumnsStayNaN ==
    button =>
        \A c \in S \ (RawFields \cup DerivedFields \cup Range(PT_COLS_dict)
                        \cup Range(SM_COLS_dict)) :
            at(X_row, c) = NaN

C4_Witness ==
    /\ button
    /\ FEATURES = <<"property_type_other", "year_built">>
    /\ at(X_row, "year_built") = NaN
    /\ beds = 12

\* C5: rooms_total in the built row is the integer beds + baths + parking,
\* of the beds, baths and parking the row carries.
C5_RoomsTotalIsSum ==
    (button /\ "rooms_total" \in S) =>
        /\ at(X_row, "rooms_total") = IntV(beds + baths + parking)
        /\ \A f \in {"beds", "baths", "parking"} \cap S :
              at(X_row, f) = RawValue[f]

C5_Witness ==
    /\ button
    /\ FEATURES = <<"parking", "rooms_total">>
    /\ parking = 8
    /\ at(X_row, "rooms_total") = IntV(13)

\* C6: a raw scalar field whose name is in S has the widget's value in the
\* built row; one whose name is not in S is no column of the row.
C6_RawFieldsCopied ==
    button =>
        /\ \A f \in RawFields \cap S : at(X_row, f) = RawValue[f]
        /\ \A f \in RawFields \ S : f \notin Range(X_row.columns)

C6_Witness ==
    /\ button
    /\ FEATURES = <<"land_size", "nearest_bus">>
    /\ nearest_bus = FloatV(200, 0)
    /\ at(X_row, "nearest_bus") = FloatV(200, 0)
    /\ at(X_row, "land_size") = FloatV(400, 0)

\* C7: when the pipeline raises, the exception leaves the script after the
\* one call and no estimate is displayed; an estimate is displayed only in
\* a run whose call of the pipeline returned, and it is that value.
C7_FailurePropagates ==
    /\ (button /\ returned = <<>>) =>
          raised /\ Len(predict_args) = 1 /\ estimate = <<>> /\ yhat = <<>>
    /\ estimate # <<>> =>
          /\ button /\ ~raised
          /\ Len(returned) = 1
          /\ estimate = <<returned[1][1]>>

C7_Witness ==
    /\ button
    /\ raised
    /\ returned = <<>>
    /\ estimate = <<>>
    /\ Len(predict_args) = 1

C9_AmenityAccessIndex ==
    (button /\ "amenity_access_index" \in S) =>
        LET v == at(X_row, "amenity_access_index")
            d == <<nearest_supermarket, nearest_train, nearest_bus,
                   nearest_park>>
        IN  /\ v.kind = "float"
            /\ v = fadd(fadd(fadd(finv(fadd(eps, d[1])),
                                  finv(fadd(eps, d[2]))),
                             finv(fadd(eps, d[3]))),
                        finv(fadd(eps, d[4])))
            /\ d = <<FloatV(0, 800000), FloatV(1, 200000), FloatV(0, 300000),
                     FloatV(0, 500000)>>
                  => v.whole = 7 /\ v.micro >= 416000 /\ v.micro <= 418000
            /\ \A i \in 1..4 : d[i] = FloatV(0, 0) => v.whole >= Unit

C9_Witness ==
    /\ button
    /\ "amenity_access_index" \in S
    /\ nearest_supermarket = FloatV(0, 0)
    /\ nearest_train = FloatV(0, 0)
    /\ nearest_bus = FloatV(0, 0)
    /\ nearest_park = FloatV(0, 0)
    /\ at(X_row, "amenity_access_index") = FloatV(4 * Unit, 0)

\* C10: the pipeline is called only in a run started by the button, once,
\* on a one-row batch built from the widget values of that run and the
\* rooms_total derived from them, and the estimate displayed is the first
\* element of what it returned.
C10_PredictUsesCurrentInputs ==
    /\ ~button => predict_args = <<>> /\ returned = <<>> /\ estimate = <<>>
    /\ button =>
          /\ Len(predict_args) = 1
          /\ Len(predict_args[1].values) = 1
          /\ rooms_total = beds + baths + parking
          /\ predict_args[1] = build_input_row(globals)
          /\ "rooms_total" \in S =>
                at(predict_args[1], "rooms_total")
                    = IntV(beds + baths + parking)
          /\ \A f \in RawFields \cap S : at(predict_args[1], f) = RawValue[f]
          /\ ~raised => Len(returned) = 1 /\ estimate = <<returned[1][1]>>

C10_Witness ==
    /\ button
    /\ ~raised
    /\ beds = 12 /\ baths = 8
    /\ FEATURES = <<"rooms_total", "beds">>
    /\ at(predict_args[1], "rooms_total") = IntV(21)
    /\ estimate = <<1000000>>

=============================================================================
